---- MODULE Spec2Model ----
(***************************************************************************)
(* Model of the molecular-dynamics engine (executable/src/main.cpp) and of *)
(* its Lennard-Jones force plugin (plugin/src/plugin.cpp).                 *)
(*                                                                         *)
(* Arithmetic.  A C++ double is modelled as a binary fixed-point number    *)
(* with 12 fractional bits: the integer a stands for a / SCALE.  Sums and  *)
(* differences are exact, products and quotients are rounded to the        *)
(* nearest representable value (ties away from zero, so rounding commutes  *)
(* with negation as it does in IEEE-754).  The two IEEE special values the *)
(* code can produce, +-infinity and NaN, are kept as values: 1.0 / 0.0 is  *)
(* +infinity and infinity - infinity is NaN.                               *)
(***************************************************************************)
EXTENDS Integers, Sequences, FiniteSets, TLC

SCALE == 2^12
HALF == SCALE \div 2

Inf == 2^29
NaN == Inf + 1

IsNaN(a) == a = NaN
IsInf(a) == a = Inf \/ a = -Inf
IsFinite(a) == ~IsNaN(a) /\ ~IsInf(a)

Sgn(a) == IF a > 0 THEN 1 ELSE IF a < 0 THEN -1 ELSE 0
Abs(a) == IF a < 0 THEN -a ELSE a

\* p / q rounded to the nearest integer, ties away from zero (q # 0).
RoundDiv(p, q) == Sgn(p) * Sgn(q) * ((Abs(p) + Abs(q) \div 2) \div Abs(q))

FNeg(a) == IF IsNaN(a) THEN NaN ELSE -a

FAdd(a, b) ==
  CASE IsNaN(a) \/ IsNaN(b) -> NaN
    [] IsInf(a) /\ IsInf(b) -> IF a = b THEN a ELSE NaN
    [] IsInf(a)             -> a
    [] IsInf(b)             -> b
    [] OTHER                -> a + b

FSub(a, b) == FAdd(a, FNeg(b))

FMul(a, b) ==
  CASE IsNaN(a) \/ IsNaN(b) -> NaN
    [] IsInf(a) \/ IsInf(b) -> IF a = 0 \/ b = 0 THEN NaN ELSE Sgn(a) * Sgn(b) * Inf
    [] OTHER                -> RoundDiv(a * b, SCALE)

FDiv(a, b) ==
  CASE IsNaN(a) \/ IsNaN(b) -> NaN
    [] IsInf(a) /\ IsInf(b) -> NaN
    [] IsInf(a)             -> IF b < 0 THEN -a ELSE a
    [] IsInf(b)             -> 0
    [] b = 0                -> IF a = 0 THEN NaN ELSE Sgn(a) * Inf
    [] OTHER                -> RoundDiv(a * SCALE, b)

\* Comparisons with a NaN operand are false.
FLess(a, b) == ~IsNaN(a) /\ ~IsNaN(b) /\ a < b
FGeq(a, b) == ~IsNaN(a) /\ ~IsNaN(b) /\ a >= b

\* The double nearest to the integer literal k (4.0, 24.0, ...).
Lit(k) == k * SCALE

Zero3 == <<0, 0, 0>>
Vec3Add(u, v) == <<FAdd(u[1], v[1]), FAdd(u[2], v[2]), FAdd(u[3], v[3])>>
Axes == 1..3

VARIABLES
  pc,                  \* Uninitialized, Ready, Running, Completed; Harness when
                       \* the plugin is driven directly
  box_size, nparticles, positions, velocities, forces,
  potential_energy, kinetic_energy,
  nsteps, dt, istep,   \* run()'s parameters and loop counter
  output,              \* the per-step reports printed so far
  lj_potential_at_cutoff,   \* the plugin's global
  initialize_calls, evaluate_forces_calls,   \* entries into the plugin's exports
  last_call,           \* the plugin function entered last
  arg_forces, arg_potential_energy,   \* forces, potential_energy on that entry
  pair_terms,          \* what evaluate_lj_forces computed for each ordered pair
  prev_positions, prev_velocities,    \* the values at the start of the last step
  displacement_ok      \* no step so far moved a particle more than box_size

simVars == <<box_size, nparticles, positions, velocities, forces,
             potential_energy, kinetic_energy>>
runVars == <<nsteps, dt, istep, output, prev_positions, prev_velocities,
             displacement_ok>>
pluginVars == <<lj_potential_at_cutoff, initialize_calls, evaluate_forces_calls,
                last_call, arg_forces, arg_potential_energy, pair_terms>>
vars == <<pc, simVars, runVars, pluginVars>>

\* Bounds of the model.
MaxN == 10
MaxSteps == 2
MaxKernelN == 3

BoxSizes == {Lit(4), Lit(5), Lit(6)}
KernelBoxSizes == {Lit(4), Lit(6)}

(***************************************************************************)
(* plugin.cpp                                                              *)
(***************************************************************************)
lj_cutoff == (5 * SCALE) \div 2
lj_cutoff2 == FMul(lj_cutoff, lj_cutoff)

lj_potential(r2) ==
  LET inv_r2 == FDiv(Lit(1), r2)
      inv_r6 == FMul(FMul(inv_r2, inv_r2), inv_r2)
  IN  FMul(Lit(4), FSub(FMul(inv_r6, inv_r6), inv_r6))

lj_potential_with_cutoff(r2) ==
  IF FLess(r2, lj_cutoff2)
    THEN FSub(lj_potential(r2), lj_potential_at_cutoff)
    ELSE 0

lj_force(r2) ==
  LET inv_r2 == FDiv(Lit(1), r2)
      inv_r6 == FMul(FMul(inv_r2, inv_r2), inv_r2)
  IN  FMul(FMul(Lit(24), inv_r2),
           FSub(FMul(FMul(Lit(2), inv_r6), inv_r6), inv_r6))

lj_force_with_cutoff(r2) ==
  IF FLess(r2, lj_cutoff2) THEN lj_force(r2) ELSE 0

\* Mutant of MinimumImage: the correction for d < -L/2 is missing.
MinimumImageOneSided(d, L) ==
  IF FLess(FMul(HALF, L), d) THEN FSub(d, L) ELSE d

\* Mutant of MinimumImage: the first test is d >= L/2 instead of d > L/2.
MinimumImageGeq(d, L) ==
  LET d1 == IF FGeq(d, FMul(HALF, L)) THEN FSub(d, L) ELSE d
  IN  IF FLess(d1, FNeg(FMul(HALF, L))) THEN FAdd(d1, L) ELSE d1

\* The minimum-image correction of one displacement component.
MinimumImage(d, L) ==
  LET d1 == IF FLess(FMul(HALF, L), d) THEN FSub(d, L) ELSE d
  IN  IF FLess(d1, FNeg(FMul(HALF, L))) THEN FAdd(d1, L) ELSE d1

\* Mutant of PairTerm: the pair energy is accumulated without the factor 0.5.
PairTermFullEnergy(pos, i, j, L) ==
  LET dx == MinimumImage(FSub(pos[i][1], pos[j][1]), L)
      dy == MinimumImage(FSub(pos[i][2], pos[j][2]), L)
      dz == MinimumImage(FSub(pos[i][3], pos[j][3]), L)
      r2 == FAdd(FAdd(FMul(dx, dx), FMul(dy, dy)), FMul(dz, dz))
      f  == lj_force_with_cutoff(r2)
  IN  [r2     |-> r2,
       force  |-> <<FMul(f, dx), FMul(f, dy), FMul(f, dz)>>,
       energy |-> lj_potential_with_cutoff(r2)]

\* The body of the pair loop for the ordered pair (i, j), i # j.
PairTerm(pos, i, j, L) ==
  LET dx == MinimumImage(FSub(pos[i][1], pos[j][1]), L)
      dy == MinimumImage(FSub(pos[i][2], pos[j][2]), L)
      dz == MinimumImage(FSub(pos[i][3], pos[j][3]), L)
      r2 == FAdd(FAdd(FMul(dx, dx), FMul(dy, dy)), FMul(dz, dz))
      f  == lj_force_with_cutoff(r2)
  IN  [r2     |-> r2,
       force  |-> <<FMul(f, dx), FMul(f, dy), FMul(f, dz)>>,
       energy |-> FMul(HALF, lj_potential_with_cutoff(r2))]

\* Whether the pair loop visits (i, j).
PairVisited(i, j) == i # j

OrderedPairs(n) == {p \in (0..(n - 1)) \X (0..(n - 1)) : PairVisited(p[1], p[2])}

\* evaluate_lj_forces: the result in (potential_energy, forces), both passed
\* by reference and accumulated into.
evaluate_lj_forces(n, pe, L, pos, frc) ==
  LET RECURSIVE jLoop(_, _, _)
      jLoop(i, j, acc) ==
        IF j >= n THEN acc
        ELSE IF PairVisited(i, j)
          THEN LET t == PairTerm(pos, i, j, L)
               IN  jLoop(i, j + 1,
                         [potential_energy |-> FAdd(acc.potential_energy, t.energy),
                          forces |-> [acc.forces EXCEPT ![i] = Vec3Add(@, t.force)]])
          ELSE jLoop(i, j + 1, acc)
      RECURSIVE iLoop(_, _)
      iLoop(i, acc) == IF i >= n THEN acc ELSE iLoop(i + 1, jLoop(i, 0, acc))
  IN  iLoop(0, [potential_energy |-> pe, forces |-> frc])

\* extern "C" initialize(state)
initialize ==
  /\ pc = "Harness"
  /\ last_call = "none"
  /\ lj_potential_at_cutoff' = lj_potential(lj_cutoff2)
  /\ initialize_calls' = initialize_calls + 1
  /\ last_call' = "initialize"
  /\ arg_forces' = forces
  /\ arg_potential_energy' = potential_energy
  /\ UNCHANGED <<pc, simVars, runVars, evaluate_forces_calls, pair_terms>>

\* What evaluate_forces(state) leaves in (potential_energy, forces): its body
\* holds no statement, the call of evaluate_lj_forces is commented out.
evaluate_forces_result(n, pe, L, pos, frc) ==
  [potential_energy |-> pe, forces |-> frc]

\* extern "C" evaluate_forces(state)
evaluate_forces ==
  /\ pc = "Harness"
  /\ last_call \in {"none", "initialize"}
  /\ LET r == evaluate_forces_result(nparticles, potential_energy, box_size,
                                     positions, forces)
     IN  /\ forces' = r.forces
         /\ potential_energy' = r.potential_energy
  /\ evaluate_forces_calls' = evaluate_forces_calls + 1
  /\ last_call' = "evaluate_forces"
  /\ arg_forces' = forces
  /\ arg_potential_energy' = potential_energy
  /\ UNCHANGED <<pc, box_size, nparticles, positions, velocities, kinetic_energy,
                 runVars, lj_potential_at_cutoff, initialize_calls, pair_terms>>

\* A direct call of evaluate_lj_forces on the current state.
CallEvaluateLJForces ==
  /\ pc = "Harness"
  /\ last_call \in {"none", "initialize"}
  /\ LET r == evaluate_lj_forces(nparticles, potential_energy, box_size,
                                 positions, forces)
     IN  /\ forces' = r.forces
         /\ potential_energy' = r.potential_energy
  /\ pair_terms' = [p \in OrderedPairs(nparticles) |->
                      PairTerm(positions, p[1], p[2], box_size)]
  /\ last_call' = "evaluate_lj_forces"
  /\ arg_forces' = forces
  /\ arg_potential_energy' = potential_energy
  /\ UNCHANGED <<pc, box_size, nparticles, positions, velocities, kinetic_energy,
                 runVars, lj_potential_at_cutoff, initialize_calls,
                 evaluate_forces_calls>>

(***************************************************************************)
(* The plugin driven directly: any positions on a grid of the box, any     *)
(* prior contents of forces and potential_energy; initialize is called or  *)
(* not, and then one of evaluate_forces and evaluate_lj_forces is called.  *)
(***************************************************************************)
GridCoords(L) == {Lit(k) : k \in 0..((L \div SCALE) - 1)}
KernelPositions(L) ==
  {<<x, 0, 0>> : x \in GridCoords(L)}
    \cup {<<0, Lit(1), Lit(1)>>, <<0, L - Lit(1), L - Lit(1)>>}

Priors(n) ==
  {[forces |-> [i \in 0..(n - 1) |-> Zero3], potential_energy |-> 0],
   [forces |-> [i \in 0..(n - 1) |-> <<Lit(1), -Lit(2), 3>>],
    potential_energy |-> Lit(3)]}

InitKernel ==
  /\ pc = "Harness"
  /\ box_size \in KernelBoxSizes
  /\ nparticles \in 1..MaxKernelN
  /\ positions \in [0..(nparticles - 1) -> KernelPositions(box_size)]
  /\ velocities = [i \in 0..(nparticles - 1) |-> Zero3]
  /\ \E prior \in Priors(nparticles) :
       /\ forces = prior.forces
       /\ potential_energy = prior.potential_energy
  /\ kinetic_energy = 0
  /\ nsteps = 0 /\ dt = 0 /\ istep = 0 /\ output = <<>>
  /\ prev_positions = positions /\ prev_velocities = velocities
  /\ displacement_ok = TRUE
  /\ lj_potential_at_cutoff = 0
  /\ initialize_calls = 0 /\ evaluate_forces_calls = 0
  /\ last_call = "none"
  /\ arg_forces = forces /\ arg_potential_energy = potential_energy
  /\ pair_terms = <<>>

NextKernel == initialize \/ evaluate_forces \/ CallEvaluateLJForces

SpecKernel == InitKernel /\ [][NextKernel]_vars

(***************************************************************************)
(* main.cpp                                                                *)
(***************************************************************************)
Particles == 0..(nparticles - 1)

\* Mutant of particles_per_side: the cube root is rounded down.
particles_per_side_floor(n) ==
  CHOOSE k \in 1..n : k * k * k <= n /\ (k + 1) * (k + 1) * (k + 1) > n

\* std::ceil(std::pow(nparticles, 1.0/3.0)), n >= 1
particles_per_side(n) ==
  CHOOSE k \in 1..n : k * k * k >= n /\ (k - 1) * (k - 1) * (k - 1) < n

\* (ix, iy, iz) of particle iparticle
LatticeSlot(iparticle, pps) ==
  <<iparticle % pps, (iparticle \div pps) % pps, iparticle \div (pps * pps)>>

\* The position the constructor gives to the particle in a lattice slot.
LatticePosition(slot, particle_spacing) ==
  [a \in Axes |-> FAdd(FMul(particle_spacing, Lit(slot[a])),
                       FMul(HALF, particle_spacing))]

\* std::mt19937 gen(iparticle) and three draws of
\* uniform_real_distribution(-0.5, 0.5): the triple is a function of the seed
\* alone, with components in [-0.5, 0.5).  The generator's arithmetic is not
\* modelled: g selects one of a family of such functions.
VelocityTable ==
  << <<-HALF, SCALE \div 4, 0>>,
     <<HALF - 1, -(SCALE \div 4), 1>>,
     <<SCALE \div 4, -HALF, HALF - 1>>,
     <<-1, SCALE \div 8, -(SCALE \div 8)>>,
     <<0, 0, 0>> >>
Generators == 0..(Len(VelocityTable) - 1)
random_vel(g, seed) == VelocityTable[((seed + g) % Len(VelocityTable)) + 1]

\* The values a member the constructor does not initialize may hold.
Indeterminate == {0, Lit(7)}

\* MDSimulation::MDSimulation(box_size_in, nparticles_in)
MDSimulation ==
  /\ pc = "Uninitialized"
  /\ \E box_size_in \in BoxSizes, nparticles_in \in 1..MaxN, g \in Generators :
       LET pps == particles_per_side(nparticles_in)
           particle_spacing == FDiv(box_size_in, Lit(pps + 1))
           ids == 0..(nparticles_in - 1)
       IN  /\ box_size' = box_size_in
           /\ nparticles' = nparticles_in
           /\ positions' = [i \in ids |->
                              LatticePosition(LatticeSlot(i, pps), particle_spacing)]
           /\ velocities' = [i \in ids |-> random_vel(g, i)]
           /\ forces' = [i \in ids |-> Zero3]
  \* potential_energy and kinetic_energy are left uninitialized.
  /\ potential_energy' \in Indeterminate
  /\ kinetic_energy' \in Indeterminate
  \* "Call the plugin initialize function here": no call is made.
  /\ pc' = "Ready"
  /\ UNCHANGED <<runVars, pluginVars>>

\* The time steps run() is called with.
DtChoices == {20, Lit(1), Lit(8), Lit(16)}

\* run(nsteps, dt): entry
run ==
  /\ pc = "Ready"
  /\ \E nsteps_in \in 0..MaxSteps, dt_in \in DtChoices :
       /\ nsteps' = nsteps_in
       /\ dt' = dt_in
  /\ istep' = 0
  /\ pc' = "Running"
  /\ UNCHANGED <<simVars, output, prev_positions, prev_velocities,
                 displacement_ok, pluginVars>>

\* Mutant of Wrap: the second test is x > L instead of x >= L.
WrapGt(x, L) ==
  LET x1 == IF FLess(x, 0) THEN FAdd(x, L) ELSE x
  IN  IF FLess(L, x1) THEN FSub(x1, L) ELSE x1

\* The periodic boundary conditions on one coordinate.
Wrap(x, L) ==
  LET x1 == IF FLess(x, 0) THEN FAdd(x, L) ELSE x
  IN  IF FGeq(x1, L) THEN FSub(x1, L) ELSE x1

\* The position update of one step.
UpdatePositions(pos, vel, h, L) ==
  [i \in DOMAIN pos |->
     [a \in Axes |-> Wrap(FAdd(pos[i][a], FMul(vel[i][a], h)), L)]]

\* The kinetic energy loop, starting from the value ke0.
KineticEnergy(ke0, vel) ==
  LET n == Cardinality(DOMAIN vel)
      RECURSIVE loop(_, _)
      loop(i, ke) ==
        IF i >= n THEN ke
        ELSE loop(i + 1,
               FAdd(FAdd(FAdd(ke, FMul(FMul(HALF, vel[i][1]), vel[i][1])),
                              FMul(FMul(HALF, vel[i][2]), vel[i][2])),
                              FMul(FMul(HALF, vel[i][3]), vel[i][3])))
  IN  loop(0, ke0)

\* Mutant of KineticEnergyStart: kinetic_energy is not zeroed before the loop.
KineticEnergyStartKept(ke) == ke

\* The value kinetic_energy has when the kinetic energy loop starts.
KineticEnergyStart(ke) == 0

\* The velocity update of one step.
UpdateVelocities(vel, frc, h) ==
  [i \in DOMAIN vel |-> [a \in Axes |-> FAdd(vel[i][a], FMul(frc[i][a], h))]]

\* The forces and potential energy after "Zero the energy and forces" and
\* "Call the plugin evaluate_forces function here", where no call is made.
StepForces(pos, L) ==
  [potential_energy |-> 0, forces |-> [i \in DOMAIN pos |-> Zero3]]

\* One iteration of run()'s main loop.
Step ==
  /\ pc = "Running"
  /\ istep < nsteps
  /\ LET pos == UpdatePositions(positions, velocities, dt, box_size)
         fe  == StepForces(pos, box_size)
         ke  == KineticEnergy(KineticEnergyStart(kinetic_energy), velocities)
     IN  /\ positions' = pos
         /\ potential_energy' = fe.potential_energy
         /\ forces' = fe.forces
         /\ kinetic_energy' = ke
         /\ velocities' = UpdateVelocities(velocities, fe.forces, dt)
         /\ output' = Append(output,
                        [istep |-> istep,
                         potential_energy |-> fe.potential_energy,
                         kinetic_energy |-> ke,
                         total_energy |-> FAdd(fe.potential_energy, ke)])
  /\ istep' = istep + 1
  /\ prev_positions' = positions
  /\ prev_velocities' = velocities
  /\ displacement_ok' =
       (displacement_ok /\
        \A i \in Particles : \A a \in Axes :
          Abs(FMul(velocities[i][a], dt)) <= box_size)
  /\ UNCHANGED <<pc, box_size, nparticles, nsteps, dt, pluginVars>>

\* run(): the loop ends, "Simulation completed."
RunExit ==
  /\ pc = "Running"
  /\ istep >= nsteps
  /\ pc' = "Completed"
  /\ UNCHANGED <<simVars, runVars, pluginVars>>

\* main() before the MDSimulation object is constructed.
Init ==
  /\ pc = "Uninitialized"
  /\ box_size = 0 /\ nparticles = 0
  /\ positions = <<>> /\ velocities = <<>> /\ forces = <<>>
  /\ potential_energy = 0 /\ kinetic_energy = 0
  /\ nsteps = 0 /\ dt = 0 /\ istep = 0 /\ output = <<>>
  /\ prev_positions = <<>> /\ prev_velocities = <<>>
  /\ displacement_ok = TRUE
  /\ lj_potential_at_cutoff = 0
  /\ initialize_calls = 0 /\ evaluate_forces_calls = 0
  /\ last_call = "none"
  /\ arg_forces = <<>> /\ arg_potential_energy = 0
  /\ pair_terms = <<>>

Next == MDSimulation \/ run \/ Step \/ RunExit

Spec == Init /\ [][Next]_vars

(***************************************************************************)
(* Properties                                                              *)
(***************************************************************************)
\* The sum of val(x) over the finite set S.
FSum(S, val(_)) ==
  LET RECURSIVE go(_)
      go(T) == IF T = {} THEN 0
               ELSE LET x == CHOOSE y \in T : TRUE
                    IN  FAdd(val(x), go(T \ {x}))
  IN  go(S)

Started == pc \in {"Running", "Completed"}
AfterStep == Started /\ istep >= 1
AfterKernel == pc = "Harness" /\ last_call = "evaluate_lj_forces"
UnorderedPairs == {p \in Particles \X Particles : p[1] < p[2]}

\* C1: evaluate_forces is invoked exactly once in every integration step, so
\* after istep completed steps it has been invoked istep times (and nsteps
\* times when run() returns).
C1_EvaluateForcesOncePerStep ==
  Started => evaluate_forces_calls = istep

\* C2: once the MDSimulation object is constructed, initialize has been
\* invoked exactly once, and lj_potential_at_cutoff holds
\* lj_potential(lj_cutoff2).
C2_InitializeOnceAtConstruction ==
  pc # "Uninitialized" =>
    /\ initialize_calls = 1
    /\ lj_potential_at_cutoff = lj_potential(lj_cutoff2)

\* C3: after a call of evaluate_forces, forces and potential_energy are what
\* the positions and the box size determine, whatever they held before the
\* call: the Lennard-Jones forces and energy of the configuration.
C3_EvaluateForcesOverwrites ==
  (pc = "Harness" /\ last_call = "evaluate_forces") =>
    LET r == evaluate_lj_forces(nparticles, 0, box_size, positions,
                                [i \in Particles |-> Zero3])
    IN  forces = r.forces /\ potential_energy = r.potential_energy

\* C4: at the end of every integration step every position component lies in
\* [0, box_size), for every run in which no step has displaced a particle by
\* more than one box length on any axis.
C4_PositionsInBox ==
  (AfterStep /\ displacement_ok) =>
    \A i \in Particles : \A a \in Axes :
      0 <= positions[i][a] /\ positions[i][a] < box_size

\* C4 witness: a step of such a run has carried a particle across each face
\* of the box, and one onto the face at box_size exactly.
C4_Witness ==
  /\ AfterStep /\ displacement_ok
  /\ \E i \in Particles : \E a \in Axes :
       prev_positions[i][a] + FMul(prev_velocities[i][a], dt) = box_size
  /\ \E i \in Particles : \E a \in Axes :
       prev_positions[i][a] + FMul(prev_velocities[i][a], dt) > box_size
  /\ \E i \in Particles : \E a \in Axes :
       prev_positions[i][a] + FMul(prev_velocities[i][a], dt) < 0

C5_TwoParticleCase ==
  /\ AfterKernel /\ arg_potential_energy = 0
  /\ nparticles = 2 /\ initialize_calls = 1
  /\ FLess(pair_terms[<<0, 1>>].r2, lj_cutoff2)
  /\ IsFinite(potential_energy) /\ potential_energy # 0

\* Two ordered pairs have the same separation through the periodic boundary:
\* on every axis their coordinate differences are d and d, or d and L - d.
SameSeparation(p, q) ==
  \A a \in Axes :
    LET dp == Abs(positions[p[1]][a] - positions[p[2]][a])
        dq == Abs(positions[q[1]][a] - positions[q[2]][a])
    IN  dp = dq \/ dp = box_size - dq

\* C6: two pairs whose coordinates differ by d and by L - d on an axis get the
\* same r2 from evaluate_lj_forces, whichever particle is i and which is j.
C6_MinimumImageR2 ==
  AfterKernel =>
    \A p \in OrderedPairs(nparticles) : \A q \in OrderedPairs(nparticles) :
      SameSeparation(p, q) => pair_terms[p].r2 = pair_terms[q].r2

\* C6 witness: the kernel has run on a pair d apart and a pair L - d apart on
\* the x axis, 0 < d < L/2.
C6_Witness ==
  /\ AfterKernel
  /\ \E p \in OrderedPairs(nparticles) : \E q \in OrderedPairs(nparticles) :
       LET d == positions[p[1]][1] - positions[p[2]][1]
       IN  /\ 0 < d /\ 2 * d < box_size
           /\ positions[q[1]][1] - positions[q[2]][1] = box_size - d
           /\ SameSeparation(p, q)

\* C7: the constructor's positions lie in [0, box_size), every lattice index
\* is below particles_per_side, and no two particles share a lattice slot (or
\* a position).
C7_LatticePlacement ==
  pc = "Ready" =>
    LET pps == particles_per_side(nparticles)
    IN  /\ \A i \in Particles : \A a \in Axes :
             /\ 0 <= positions[i][a] /\ positions[i][a] < box_size
             /\ LatticeSlot(i, pps)[a] < pps
        /\ \A i \in Particles : \A j \in Particles :
             i # j => /\ LatticeSlot(i, pps) # LatticeSlot(j, pps)
                      /\ positions[i] # positions[j]

\* C7 witness: a construction that has overflowed the 2x2x2 lattice into a
\* 3x3x3 one, its last particle in the second layer.
C7_Witness ==
  /\ pc = "Ready" /\ nparticles = 10
  /\ positions[9][3] > positions[8][3] /\ positions[8][1] > positions[7][1]

\* C8: with lj_cutoff > box_size / 2 the configuration is rejected at setup:
\* no integration step executes and nothing is reported.
C8_CutoffRejected ==
  (pc # "Uninitialized" /\ FLess(FMul(HALF, box_size), lj_cutoff)) =>
    istep = 0 /\ output = <<>>

\* C9: a step moves the particles by the velocities it started with, reports
\* the kinetic energy of those velocities alone (nothing carried over from
\* earlier steps), and only then changes the velocities by forces * dt; the
\* potential energy is reset and, no plugin being called, stays zero.
C9_StepOrder ==
  AfterStep =>
    /\ \A i \in Particles : \A a \in Axes :
         /\ (positions[i][a] - prev_positions[i][a]
               - FMul(prev_velocities[i][a], dt)) % box_size = 0
         /\ velocities[i][a] = prev_velocities[i][a] + FMul(forces[i][a], dt)
    /\ kinetic_energy =
         FSum(Particles \X Axes,
              LAMBDA x : FMul(FMul(HALF, prev_velocities[x[1]][x[2]]),
                              prev_velocities[x[1]][x[2]]))
    /\ potential_energy = 0
    /\ output[istep].kinetic_energy = kinetic_energy
    /\ output[istep].potential_energy = potential_energy
    /\ output[istep].istep = istep - 1

\* C9 witness: a second step has run with moving particles.
C9_Witness == AfterStep /\ istep = 2 /\ kinetic_energy > 0 /\ nparticles >= 2

NoCoincidentPair == \A p \in OrderedPairs(nparticles) : pair_terms[p].r2 # 0
ForcesWereZero == \A i \in Particles : arg_forces[i] = Zero3
Vec3Neg(u) == <<FNeg(u[1]), FNeg(u[2]), FNeg(u[3])>>
TotalForce == [a \in Axes |-> FSum(Particles, LAMBDA i : forces[i][a])]
NewtonThirdLaw ==
  /\ \A p \in OrderedPairs(nparticles) :
       pair_terms[p].force = Vec3Neg(pair_terms[<<p[2], p[1]>>].force)
  /\ TotalForce = Zero3

\* C10 as stated: after evaluate_lj_forces on zeroed forces, for every pair
\* i # j the contribution of j to forces[i] is the negation of that of i to
\* forces[j], and the force vectors sum to zero.
C10_NewtonThirdLaw_AllPairs ==
  (AfterKernel /\ ForcesWereZero) => NewtonThirdLaw

\* C10 amended: the same, for configurations in which no two particles
\* coincide (every pair has r2 > 0); a pair exactly box_size/2 apart on an
\* axis included.
C10_NewtonThirdLaw ==
  (AfterKernel /\ ForcesWereZero /\ NoCoincidentPair) => NewtonThirdLaw

\* C10 witness: the kernel has run on zeroed forces with a pair exactly
\* box_size/2 apart on the x axis that exerts a nonzero force.
C10_Witness ==
  /\ AfterKernel /\ ForcesWereZero /\ NoCoincidentPair
  /\ \E p \in OrderedPairs(nparticles) :
       /\ 2 * (positions[p[1]][1] - positions[p[2]][1]) = box_size
       /\ pair_terms[p].force[1] # 0

====
